---------------------------- MODULE Spec2Model ----------------------------
(***************************************************************************)
(* A model of the per-frame simulation core of tanks-bevy (src/main.rs):   *)
(* the Startup system setup, the three Update systems ai_tank_update,      *)
(* camera_update and cannonball_update, the helper spawn_cannonball and    *)
(* camera_transform, and the deferred command buffers of the Update        *)
(* schedule.                                                               *)
(*                                                                         *)
(* Numbers.  The program computes in f32.  A real r is modelled as the     *)
(* integer r * Scale (fixed point, four decimals), every product is        *)
(* rounded to the nearest unit as it is formed, in the order the code      *)
(* forms it.  Elapsed time is an integer number of 1/TimeDen seconds.      *)
(* Angles are integers in units of pi/8; sines and cosines come from a     *)
(* table.  All intermediate values stay below 2^31.  The height lines of   *)
(* cannonball_update are modelled a second time in f32 itself, bit for     *)
(* bit, for the properties that rest on the rounding of a single sum.      *)
(***************************************************************************)
EXTENDS Integers, Sequences, FiniteSets

VARIABLES
    world,       \* the ECS world: entity id -> its components
    cmdSpawn,    \* Commands of ai_tank_update: bundles to spawn, in order
    cmdDespawn,  \* ParallelCommands of cannonball_update: entities to despawn
    phase,       \* "idle" between frames, "update" while the Update schedule runs
    ran,         \* how often each Update system has run in the current frame
    dt,          \* Time::delta_seconds() of the current frame
    tick,        \* number of frames started
    nextEntity,  \* next free entity id
    crashed,     \* a system panicked: the process is gone
    before,      \* history: the world as the current frame found it
    born,        \* history: entities spawned when the last frame's commands were applied
    gone,        \* history: entities despawned so far
    integrated,  \* history: the entities cannonball_update's closure ran on in this frame
    pose,        \* a firing pose handed to spawn_cannonball (single-projectile runs)
    ball,        \* the projectile followed in a single-projectile run
    age,         \* integrator ticks the followed projectile has had
    hgt,         \* a projectile's height as the f32 it is (f32 height runs)
    dts          \* history: the elapsed times of the frames so far, in order

vars == <<world, cmdSpawn, cmdDespawn, phase, ran, dt, tick, nextEntity, crashed,
          before, born, gone, integrated, pose, ball, age, hgt, dts>>

worldVars == <<world, cmdSpawn, cmdDespawn, phase, ran, tick, nextEntity, crashed,
               before, born, gone, integrated, dts>>

---------------------------------------------------------------------------
(* Bounds of the model *)

NumTanks == 2
MaxTicks == 3
LifeTicks == 263
MaxSteps == 5
MaxEnts == 3
FlightCap == 10001

---------------------------------------------------------------------------
(* Fixed-point arithmetic *)

Scale == 10000
TimeDen == 240

Abs(a) == IF a < 0 THEN -a ELSE a

\* a / b rounded to the nearest integer (b > 0)
RDiv(a, b) == (a + b \div 2) \div b

\* the product of two fixed-point numbers
MulS(a, b) == RDiv(a * b, Scale)

\* a fixed-point number times an elapsed time of d / TimeDen seconds
MulTime(a, d) == RDiv(a * d, TimeDen)

VAdd(a, b) == <<a[1] + b[1], a[2] + b[2], a[3] + b[3]>>
VScaleInt(a, n) == <<a[1] * n, a[2] * n, a[3] * n>>
VMulTime(a, d) == <<MulTime(a[1], d), MulTime(a[2], d), MulTime(a[3], d)>>
VDivInt(a, n) == <<RDiv(a[1], n), RDiv(a[2], n), RDiv(a[3], n)>>
Dot(a, b) == MulS(a[1], b[1]) + MulS(a[2], b[2]) + MulS(a[3], b[3])
Cross(a, b) == <<MulS(a[2], b[3]) - MulS(a[3], b[2]),
                 MulS(a[3], b[1]) - MulS(a[1], b[3]),
                 MulS(a[1], b[2]) - MulS(a[2], b[1])>>

Zero3 == <<0, 0, 0>>
UnitX == <<Scale, 0, 0>>
UnitY == <<0, Scale, 0>>
QuatIdentity == <<0, 0, 0, Scale>>

\* sin(k * pi/8) for k = 0..15
SinTab == <<0, 3827, 7071, 9239, 10000, 9239, 7071, 3827,
            0, -3827, -7071, -9239, -10000, -9239, -7071, -3827>>
FullTurn == 16
Sin(a) == SinTab[(a % FullTurn) + 1]
Cos(a) == Sin(a + FullTurn \div 4)

\* Quat::from_axis_angle(axis, angle): (axis * sin(angle/2), cos(angle/2))
FromAxisAngle(axis, angle) ==
    LET s == Sin(angle \div 2)
        c == Cos(angle \div 2)
    IN  <<MulS(axis[1], s), MulS(axis[2], s), MulS(axis[3], s), c>>

\* Quat::mul_vec3(q, r) = r*(w*w - b.b) + b*(2*(r.b)) + (b x r)*(2*w), b = q.xyz
\* (a factor 2 is exact in f32, so it is applied after the rounded product)
MulVec3(q, r) ==
    LET w == q[4]
        b == <<q[1], q[2], q[3]>>
        k == MulS(w, w) - Dot(b, b)
        d == Dot(r, b)
        c == Cross(b, r)
    IN  <<MulS(r[1], k) + 2 * MulS(b[1], d) + 2 * MulS(c[1], w),
          MulS(r[2], k) + 2 * MulS(b[2], d) + 2 * MulS(c[2], w),
          MulS(r[3], k) + 2 * MulS(b[3], d) + 2 * MulS(c[3], w)>>

---------------------------------------------------------------------------
(* Components and entities *)

\* An entity is a record: its component set and the data of the components
\* the systems read (Transform's translation and rotation, Velocity's val,
\* AiTank's id).  A field whose component is absent is never read.
Entity(comps, translation, rotation, vel, id) ==
    [comps |-> comps, translation |-> translation, rotation |-> rotation,
     vel |-> vel, id |-> id]

Has(e, c) == c \in e.comps

---------------------------------------------------------------------------
(* spawn_cannonball *)

MuzzleOffset == <<0, 12350, 3240>>
MuzzleDirection == <<0, 7170, 8000>>
MuzzleSpeed == 20

\* the bundle with the muzzle offset left in local coordinates
CannonballBundleUnrotated(translation, rotation) ==
    Entity({"Transform", "Mesh", "Velocity"},
           VAdd(translation, MuzzleOffset),
           rotation,
           MulVec3(rotation, VScaleInt(MuzzleDirection, MuzzleSpeed)),
           0)

\* the bundle carrying the player's marker as well
CannonballBundleMarked(translation, rotation) ==
    Entity({"Transform", "Mesh", "Velocity", "PlayerTank"},
           VAdd(translation, MulVec3(rotation, MuzzleOffset)),
           rotation,
           MulVec3(rotation, VScaleInt(MuzzleDirection, MuzzleSpeed)),
           0)

\* the bundle spawn_cannonball hands to commands.spawn
CannonballBundle(translation, rotation) ==
    LET offset == MulVec3(rotation, MuzzleOffset)
    IN  Entity({"Transform", "Mesh", "Velocity"},
               VAdd(translation, offset),
               rotation,
               MulVec3(rotation, VScaleInt(MuzzleDirection, MuzzleSpeed)),
               0)

---------------------------------------------------------------------------
(* cannonball_update: the closure run on one entity *)

FloorHeight == Scale \div 10
DampingNum == <<8, -8, 8>>
DampingDen == 10
Gravity == 98200
DespawnBelow == Scale * (Scale \div 10)

\* transform.translation += velocity.val * time.delta_seconds()
Moved(e, d) == VAdd(e.translation, VMulTime(e.vel, d))

Bounces(e, d) == Moved(e, d)[2] < FloorHeight

\* transform.translation.y += 0.1 - transform.translation.y
Clamped(p) == <<p[1], p[2] + (FloorHeight - p[2]), p[3]>>

\* a bounce that loses no speed
Reflected(v) == <<v[1], -v[2], v[3]>>

\* velocity.val *= damping
Damped(v) == <<RDiv(v[1] * DampingNum[1], DampingDen),
               RDiv(v[2] * DampingNum[2], DampingDen),
               RDiv(v[3] * DampingNum[3], DampingDen)>>

\* gravity not scaled by the elapsed time
PulledUnscaled(v, d) == <<v[1], v[2] - Gravity, v[3]>>

\* velocity.val.y -= 9.82 * time.delta_seconds()
Pulled(v, d) == <<v[1], v[2] - MulTime(Gravity, d), v[3]>>

\* gravity left out on the frame of a bounce
CannonballStepBounceNoPull(e, d) ==
    LET p == Moved(e, d)
    IN  IF Bounces(e, d)
        THEN [e EXCEPT !.translation = Clamped(p), !.vel = Damped(e.vel)]
        ELSE [e EXCEPT !.translation = p, !.vel = Pulled(e.vel, d)]

\* the closure up to the despawn test: move, bounce, gravity
CannonballStep(e, d) ==
    LET p == Moved(e, d)
    IN  IF Bounces(e, d)
        THEN [e EXCEPT !.translation = Clamped(p), !.vel = Pulled(Damped(e.vel), d)]
        ELSE [e EXCEPT !.translation = p, !.vel = Pulled(e.vel, d)]

\* velocity.val.length_squared() < 0.1, on the updated velocity.  A component
\* of magnitude 1 or more already decides the comparison; the squares are
\* formed only below that, where they fit.
LengthSquaredBelow(v, bound) ==
    /\ Abs(v[1]) < Scale
    /\ Abs(v[2]) < Scale
    /\ Abs(v[3]) < Scale
    /\ v[1] * v[1] + v[2] * v[2] + v[3] * v[3] < bound

\* the speed, not its square, compared with 0.1
DespawnDueOnSpeed(e) == LengthSquaredBelow(e.vel, DespawnBelow \div 10)

DespawnDue(e) == LengthSquaredBelow(e.vel, DespawnBelow)

---------------------------------------------------------------------------
(* The height lines of the closure in f32 itself.  Above, a height is a    *)
(* fixed-point number, on a grid coarser than f32, where a sum is exact.   *)
(* Here a height is an integer number of units of 2^-27, the spacing of    *)
(* f32 at 0.1, and every sum is rounded as f32 rounds it: to 24            *)
(* significant bits, to nearest, ties to even.                             *)

\* the literal 0.1 as an f32: 0x3DCCCCCD = 13421773 * 2^-27
F32Tenth == 13421773

Significand == 2^24

\* the spacing of the f32 numbers at magnitude m
RECURSIVE Spacing(_)
Spacing(m) == IF m < Significand THEN 1 ELSE 2 * Spacing(m \div 2)

RoundF32(v) ==
    LET m == Abs(v)
        q == Spacing(m)
        k == m \div q
        r == m % q
        up == 2 * r > q \/ (2 * r = q /\ k % 2 = 1)
        n == (IF up THEN k + 1 ELSE k) * q
    IN  IF v < 0 THEN -n ELSE n

AddF32(a, b) == RoundF32(a + b)

SubF32(a, b) == RoundF32(a - b)

\* the floor check without the push out of the floor
ClampedF32Not(y) == y

\* transform.translation.y += 0.1 - transform.translation.y
ClampedF32(y) == AddF32(y, SubF32(F32Tenth, y))

\* the height a projectile is spawned at on level ground: 1.235 as an f32
SpawnHeight32 == RoundF32(165758895)

\* values of velocity.val.y * time.delta_seconds(): none, the smallest
\* steps either way, falls of a few hundredths, 0.25, 1.2 and 5.0, rises of
\* 0.02 and 0.3
Displacements ==
    {RoundF32(s) : s \in {0, -1, 1, -3355443, -6174015, -33554432, -161061274,
                           -671088640, 2684355, 40265318}}

\* the height after one run of the closure: the move, and the push out of
\* the floor if the moved height is below 0.1
HeightStep(y, s) ==
    LET y1 == AddF32(y, s)
    IN  [y |-> IF y1 < F32Tenth THEN ClampedF32(y1) ELSE y1,
         pre |-> y1,
         hit |-> y1 < F32Tenth]

NoHeight == [y |-> SpawnHeight32, pre |-> SpawnHeight32, hit |-> FALSE]

---------------------------------------------------------------------------
(* Elapsed times, in 1/TimeDen seconds *)

Delta60 == 4
Delta20 == 12
DeltaSet == {0, 4, 24, 480}

---------------------------------------------------------------------------
(* Single-projectile runs: spawn_cannonball on a firing pose, then the     *)
(* closure of cannonball_update once per frame until the despawn command   *)
(* it issues is applied.                                                   *)

HeadingAngles == {2 * k : k \in 0 .. 15}

FirePositions == {Zero3, <<30000, 0, -20000>>, <<-15000, 0, 72500>>}

FirePoses ==
    {[translation |-> p, rotation |-> FromAxisAngle(UnitY, a), angle |-> a] :
        p \in FirePositions, a \in HeadingAngles}

\* state: "none" before the shot, "live", "despawned"; hit: the last frame's
\* integrated height fell below the floor
NoBall == [state |-> "none", e |-> Entity({}, Zero3, QuatIdentity, Zero3, 0),
           hit |-> FALSE]

IdleWorld ==
    /\ world = << >>
    /\ cmdSpawn = << >>
    /\ cmdDespawn = {}
    /\ phase = "idle"
    /\ ran = [s \in {} |-> 0]
    /\ tick = 0
    /\ nextEntity = 0
    /\ crashed = FALSE
    /\ before = << >>
    /\ born = {}
    /\ gone = {}
    /\ integrated = {}
    /\ dts = << >>

FlightPoses == {p \in FirePoses : /\ p.translation \in {Zero3, <<30000, 0, -20000>>}
                                 /\ p.angle \in {0, 2, 12, 22}}

InitFlight ==
    /\ IdleWorld
    /\ pose \in FlightPoses
    /\ ball = NoBall
    /\ hgt = NoHeight
    /\ age = 0
    /\ dt = Delta60

Fire ==
    /\ ball.state = "none"
    /\ ball' = [state |-> "live",
                e |-> CannonballBundle(pose.translation, pose.rotation),
                hit |-> FALSE]
    /\ UNCHANGED <<pose, age, dt, hgt>>
    /\ UNCHANGED worldVars

\* one frame of the followed projectile with elapsed time d
BallTick(d) ==
    /\ ball.state = "live"
    /\ LET e == CannonballStep(ball.e, d)
       IN  ball' = [state |-> IF DespawnDue(e) THEN "despawned" ELSE "live",
                    e |-> e,
                    hit |-> Bounces(ball.e, d)]
    /\ age' = age + 1
    /\ dt' = d
    /\ UNCHANGED <<pose, hgt>>
    /\ UNCHANGED worldVars

FlightTick ==
    /\ age < FlightCap
    /\ BallTick(dt)

NextFlight == Fire \/ FlightTick

SpecFlight == InitFlight /\ [][NextFlight]_vars

SpecFlightFair == SpecFlight /\ WF_vars(NextFlight)

InitInteg ==
    /\ IdleWorld
    /\ pose \in FirePoses
    /\ ball = NoBall
    /\ hgt = NoHeight
    /\ age = 0
    /\ dt = 0

IntegTick(d) ==
    /\ age < MaxSteps
    /\ BallTick(d)

NextInteg == Fire \/ \E d \in DeltaSet : IntegTick(d)

SpecInteg == InitInteg /\ [][NextInteg]_vars

\* f32 height runs: a projectile at its spawn height, moved by any of the
\* displacements in each tick
InitHeight ==
    /\ IdleWorld
    /\ pose = [translation |-> Zero3, rotation |-> QuatIdentity, angle |-> 0]
    /\ ball = NoBall
    /\ hgt = NoHeight
    /\ age = 0
    /\ dt = 0

HeightTick(s) ==
    /\ age < MaxSteps
    /\ hgt' = HeightStep(hgt.y, s)
    /\ age' = age + 1
    /\ UNCHANGED <<pose, ball, dt>>
    /\ UNCHANGED worldVars

NextHeight == \E s \in Displacements : HeightTick(s)

SpecHeight == InitHeight /\ [][NextHeight]_vars

\* flights at a steady frame rate, one rate per run: 240, 60, 30, 15 and 10
\* frames per second.  The ticks are counted up to FlightCap; the frames
\* go on, and from there the count keeps only their alternation.
StepSizes == {1, 4, 8, 16, 24}

StepPoses == {p \in FirePoses : \/ (p.translation = Zero3 /\ p.angle = 0)
                                \/ (p.translation = <<30000, 0, -20000>> /\ p.angle = 2)}

InitSteps ==
    /\ IdleWorld
    /\ pose \in StepPoses
    /\ ball = NoBall
    /\ hgt = NoHeight
    /\ age = 0
    /\ dt \in StepSizes

StepTick ==
    /\ ball.state = "live"
    /\ LET e == CannonballStep(ball.e, dt)
       IN  ball' = [state |-> IF DespawnDue(e) THEN "despawned" ELSE "live",
                    e |-> e,
                    hit |-> Bounces(ball.e, dt)]
    /\ age' = IF age < FlightCap THEN age + 1 ELSE FlightCap - 1
    /\ UNCHANGED <<pose, dt, hgt>>
    /\ UNCHANGED worldVars

NextSteps == Fire \/ StepTick

SpecSteps == InitSteps /\ [][NextSteps]_vars

\* the frames keep coming
SpecStepsFair == SpecSteps /\ WF_vars(NextSteps)

---------------------------------------------------------------------------
(* The world built by setup *)

\* Transform::looking_at(target, up) of a transform at eye: the rotation that
\* faces target - eye with the given up vector.  It is kept symbolic, as the
\* pair (direction, up); no system reads it back.
LookingAt(eye, target, up) ==
    <<target[1] - eye[1], target[2] - eye[2], target[3] - eye[3],
      up[1], up[2], up[3]>>

SunEntity == 1
CameraEntity == 2
FloorEntity == 3
PlayerEntity == 4
FirstTank == 5

TankIds == 1 .. NumTanks

SetupWorld ==
    [e \in 1 .. (FirstTank + NumTanks - 1) |->
        IF e = SunEntity
        THEN Entity({"Transform", "DirectionalLight"}, Zero3,
                    LookingAt(Zero3, <<7170, -7170, 0>>, UnitY), Zero3, 0)
        ELSE IF e = CameraEntity
        THEN Entity({"Transform", "Camera"}, Zero3, QuatIdentity, Zero3, 0)
        ELSE IF e = FloorEntity
        THEN Entity({"Transform", "Mesh"}, <<0, -5000, 0>>, QuatIdentity, Zero3, 0)
        ELSE IF e = PlayerEntity
        THEN Entity({"Transform", "Mesh", "PlayerTank"}, Zero3, QuatIdentity, Zero3, 0)
        ELSE Entity({"Transform", "Mesh", "AiTank"}, Zero3, QuatIdentity, Zero3,
                    e - FirstTank + 1)]

\* a query's filter: the entity has every component of with, none of without
Matches(e, with, without) == with \subseteq e.comps /\ e.comps \cap without = {}

\* Query<..>: the entities of the world that match
Query(w, with, without) == {e \in DOMAIN w : Matches(w[e], with, without)}

RECURSIVE InOrder(_)
InOrder(s) ==
    IF s = {} THEN << >>
    ELSE LET m == CHOOSE x \in s : \A y \in s : x <= y
         IN  <<m>> \o InOrder(s \ {m})

\* add_systems(Update, (ai_tank_update, camera_update, cannonball_update))
Systems == {"ai_tank_update", "camera_update", "cannonball_update"}

NoneRan == [s \in Systems |-> 0]

\* a system added to the schedule twice
ReadyTwice(s) == phase = "update" /\ ~crashed /\ ran[s] <= 1

\* a system of the schedule is run once per run of the schedule
Ready(s) == phase = "update" /\ ~crashed /\ ran[s] = 0

\* some system of the schedule has run
ScheduleDoneEarly == \E s \in Systems : ran[s] >= 1

\* every system of the schedule has run
ScheduleDone == \A s \in Systems : ran[s] >= 1

---------------------------------------------------------------------------
(* ai_tank_update *)

NoiseDivisor == 10
TankSpeed == 5
NoiseDen == 16
NoiseGrid == 2500

\* noise.generator.get([x, id, z]): the Perlin generator belongs to the noise
\* crate.  It is modelled as a fixed function of the sample point (the
\* generator is built once, with its default seed, and never changed), with
\* values k / NoiseDen, k in -8 .. 8.
PerlinGet(x, id, z) ==
    (((x \div NoiseGrid) * 5 + id * 3 + (z \div NoiseGrid) * 7) % 17) - 8

\* angle = (0.5 + noise) * 4.0 * PI, in units of pi/8
HeadingAngle(noise) == ((NoiseDen \div 2 + noise) * 4 * (FullTurn \div 2)) \div NoiseDen

TankHeading(e) ==
    LET seed == VDivInt(e.translation, NoiseDivisor)
    IN  HeadingAngle(PerlinGet(seed[1], e.id, seed[3]))

TankDirection(angle) == <<Sin(angle), 0, Cos(angle)>>

\* the heading applied about the wrong axis
TankRotationX(angle) == FromAxisAngle(UnitX, angle)

TankRotation(angle) == FromAxisAngle(UnitY, angle)

\* the rotation taken from the heading at the position after the move
TankStepHeadingAfter(e, d) ==
    LET angle == TankHeading(e)
        moved == [e EXCEPT
                    !.translation = VAdd(e.translation,
                                         VScaleInt(VMulTime(TankDirection(angle), d),
                                                   TankSpeed))]
    IN  [moved EXCEPT !.rotation = TankRotation(TankHeading(moved))]

\* the body of the loop up to the shot: the tank's new Transform
TankStep(e, d) ==
    LET angle == TankHeading(e)
    IN  [e EXCEPT
            !.translation = VAdd(e.translation,
                                 VScaleInt(VMulTime(TankDirection(angle), d), TankSpeed)),
            !.rotation = TankRotation(angle)]

\* one shot per pass instead of one per tank
TankShotsOnce(w, tanks, d) ==
    [i \in 1 .. (IF Len(tanks) = 0 THEN 0 ELSE 1) |->
        LET t == TankStep(w[tanks[i]], d)
        IN  CannonballBundle(t.translation, t.rotation)]

\* the shots of one pass: spawn_cannonball once per tank, from its new Transform
TankShots(w, tanks, d) ==
    [i \in 1 .. Len(tanks) |->
        LET t == TankStep(w[tanks[i]], d)
        IN  CannonballBundle(t.translation, t.rotation)]

\* a query for every entity drawn with a mesh
IsTankAnyMesh(e) == Matches(e, {"Mesh", "Transform"}, {})

\* Query<(&AiTank, &mut Transform)>
IsTank(e) == Matches(e, {"AiTank", "Transform"}, {})
Tanks(w) == {e \in DOMAIN w : IsTank(w[e])}

\* the shots put into the world at once instead of queued
AiTankUpdateSpawnsAtOnce ==
    /\ Ready("ai_tank_update")
    /\ LET shots == TankShots(world, InOrder(Tanks(world)), dt)
       IN  /\ world' = [e \in DOMAIN world \cup (nextEntity .. (nextEntity + Len(shots) - 1)) |->
                           IF e >= nextEntity THEN shots[e - nextEntity + 1]
                           ELSE IF IsTank(world[e]) THEN TankStep(world[e], dt)
                           ELSE world[e]]
           /\ nextEntity' = nextEntity + Len(shots)
    /\ ran' = [ran EXCEPT !["ai_tank_update"] = @ + 1]
    /\ UNCHANGED <<cmdSpawn, cmdDespawn, phase, dt, tick, crashed, before, born,
                   gone, integrated, pose, ball, age, hgt, dts>>

\* ai_tank_update: every tank moved and turned, one shot queued for each
AiTankUpdate ==
    /\ Ready("ai_tank_update")
    /\ world' = [e \in DOMAIN world |->
                    IF IsTank(world[e]) THEN TankStep(world[e], dt) ELSE world[e]]
    /\ cmdSpawn' = cmdSpawn \o TankShots(world, InOrder(Tanks(world)), dt)
    /\ ran' = [ran EXCEPT !["ai_tank_update"] = @ + 1]
    /\ UNCHANGED <<cmdDespawn, phase, dt, tick, nextEntity, crashed, before, born,
                   gone, integrated, pose, ball, age, hgt, dts>>

---------------------------------------------------------------------------
(* camera_update and camera_transform *)

CameraOffset == <<0, 50000, -100000>>

\* the offset added in world coordinates, not turned with the tank
CameraTransformUnturned(tank) ==
    LET translation == VAdd(tank.translation, CameraOffset)
        target == VAdd(tank.translation, UnitY)
    IN  [translation |-> translation,
         rotation |-> LookingAt(translation, target, UnitY)]

\* camera_transform: above and behind the tank, looking at it
CameraTransform(tank) ==
    LET translation == VAdd(tank.translation, MulVec3(tank.rotation, CameraOffset))
        target == VAdd(tank.translation, UnitY)
    IN  [translation |-> translation,
         rotation |-> LookingAt(translation, target, UnitY)]

\* Query<&Transform, (With<PlayerTank>, Without<Camera>)>
Players(w) == Query(w, {"Transform", "PlayerTank"}, {"Camera"})
\* Query<&mut Transform, With<Camera>>
Cameras(w) == Query(w, {"Transform", "Camera"}, {})

\* a lookup that takes any result and panics only when there is none
CameraPanicsIfNone(w) == Players(w) = {} \/ Cameras(w) = {}

\* get_single().unwrap() and single_mut() panic unless the query has one result
CameraPanics(w) == Cardinality(Players(w)) # 1 \/ Cardinality(Cameras(w)) # 1

CameraUpdate ==
    /\ Ready("camera_update")
    /\ IF CameraPanics(world)
       THEN /\ crashed' = TRUE
            /\ UNCHANGED world
       ELSE LET tank == CHOOSE e \in Players(world) : TRUE
                cam == CHOOSE e \in Cameras(world) : TRUE
                t == CameraTransform(world[tank])
            IN  /\ world' = [world EXCEPT ![cam].translation = t.translation,
                                          ![cam].rotation = t.rotation]
                /\ UNCHANGED crashed
    /\ ran' = [ran EXCEPT !["camera_update"] = @ + 1]
    /\ UNCHANGED <<cmdSpawn, cmdDespawn, phase, dt, tick, nextEntity, before, born,
                   gone, integrated, pose, ball, age, hgt, dts>>

---------------------------------------------------------------------------
(* cannonball_update *)

\* a query that asks for the Transform only
IsCannonballAnyTransform(e) == Matches(e, {"Transform"}, {})

\* Query<(&mut Transform, &mut Velocity, Entity)>
IsCannonball(e) == Matches(e, {"Transform", "Velocity"}, {})
Cannonballs(w) == {e \in DOMAIN w : IsCannonball(w[e])}

\* the entities the closure asks to despawn, given the world after the pass
DespawnRequests(w) == {e \in DOMAIN w : IsCannonball(w[e]) /\ DespawnDue(w[e])}

CannonballUpdate ==
    /\ Ready("cannonball_update")
    /\ world' = [e \in DOMAIN world |->
                    IF IsCannonball(world[e]) THEN CannonballStep(world[e], dt)
                    ELSE world[e]]
    /\ cmdDespawn' = cmdDespawn \cup DespawnRequests(world')
    /\ integrated' = integrated \cup Cannonballs(world)
    /\ ran' = [ran EXCEPT !["cannonball_update"] = @ + 1]
    /\ UNCHANGED <<cmdSpawn, phase, dt, tick, nextEntity, crashed, before, born,
                   gone, pose, ball, age, hgt, dts>>

---------------------------------------------------------------------------
(* The frame: Time is updated, the Update schedule runs its three systems  *)
(* (added as a tuple, with no ordering between them; they write disjoint   *)
(* sets of entities, so a run of the three is a run of them one after the  *)
(* other in some order), and the schedule applies the systems' command     *)
(* buffers when all have run.                                              *)

BeginFrame(d) ==
    /\ phase = "idle"
    /\ ~crashed
    /\ phase' = "update"
    /\ dt' = d
    /\ tick' = tick + 1
    /\ ran' = NoneRan
    /\ before' = world
    /\ integrated' = {}
    /\ dts' = Append(dts, d)
    /\ UNCHANGED <<world, cmdSpawn, cmdDespawn, nextEntity, crashed, born, gone,
                   pose, ball, age, hgt>>

\* the spawn commands applied, the despawn commands dropped
AppliedSpawnsOnly(w, spawns, despawns, first) ==
    [e \in DOMAIN w \cup (first .. (first + Len(spawns) - 1)) |->
        IF e >= first THEN spawns[e - first + 1] ELSE w[e]]

\* the spawn and despawn commands of the frame, applied to the world
Applied(w, spawns, despawns, first) ==
    [e \in (DOMAIN w \ despawns) \cup (first .. (first + Len(spawns) - 1)) |->
        IF e >= first THEN spawns[e - first + 1] ELSE w[e]]

ApplyDeferred ==
    /\ phase = "update"
    /\ ~crashed
    /\ ScheduleDone
    /\ world' = Applied(world, cmdSpawn, cmdDespawn, nextEntity)
    /\ nextEntity' = nextEntity + Len(cmdSpawn)
    /\ born' = nextEntity .. (nextEntity + Len(cmdSpawn) - 1)
    /\ gone' = gone \cup cmdDespawn
    /\ cmdSpawn' = << >>
    /\ cmdDespawn' = {}
    /\ phase' = "idle"
    /\ UNCHANGED <<ran, dt, tick, crashed, before, integrated, pose, ball, age, hgt, dts>>

InitWorld ==
    /\ world = SetupWorld
    /\ cmdSpawn = << >>
    /\ cmdDespawn = {}
    /\ phase = "idle"
    /\ ran = NoneRan
    /\ dt = 0
    /\ tick = 0
    /\ nextEntity = FirstTank + NumTanks
    /\ crashed = FALSE
    /\ before = SetupWorld
    /\ born = {}
    /\ gone = {}
    /\ integrated = {}
    /\ dts = << >>
    /\ pose = [translation |-> Zero3, rotation |-> QuatIdentity, angle |-> 0]
    /\ ball = NoBall
    /\ hgt = NoHeight
    /\ age = 0

Init == InitWorld

Tick == \E d \in DeltaSet : tick < MaxTicks /\ BeginFrame(d)

Next ==
    \/ Tick
    \/ AiTankUpdate
    \/ CameraUpdate
    \/ CannonballUpdate
    \/ ApplyDeferred

Spec == Init /\ [][Next]_vars

\* a long run at a steady 20 frames per second
LifeTick == tick < LifeTicks /\ BeginFrame(Delta20)

NextLife ==
    \/ LifeTick
    \/ AiTankUpdate
    \/ CameraUpdate
    \/ CannonballUpdate
    \/ ApplyDeferred

SpecLife == Init /\ [][NextLife]_vars

---------------------------------------------------------------------------
(* camera_update on an arbitrary world: up to MaxEnts entities, each with  *)
(* a Transform and any of the PlayerTank and Camera components.            *)

CameraKinds == {{"Transform"}, {"Transform", "PlayerTank"}, {"Transform", "Camera"},
                {"Transform", "PlayerTank", "Camera"}}

CameraPoses == {p \in FirePoses : /\ p.translation \in {Zero3, <<-15000, 0, 72500>>}
                                  /\ p.angle \in {0, 6}
                                  /\ (p.translation = Zero3 <=> p.angle = 0)}

CameraWorlds ==
    UNION {[1 .. n -> {Entity(k, p.translation, p.rotation, Zero3, 0) :
                          k \in CameraKinds, p \in CameraPoses}] : n \in 0 .. MaxEnts}

InitCamera ==
    /\ world \in CameraWorlds
    /\ cmdSpawn = << >>
    /\ cmdDespawn = {}
    /\ phase = "update"
    /\ ran = NoneRan
    /\ dt = 0
    /\ tick = 1
    /\ nextEntity = MaxEnts + 1
    /\ crashed = FALSE
    /\ before = world
    /\ born = {}
    /\ gone = {}
    /\ integrated = {}
    /\ dts = << >>
    /\ pose = [translation |-> Zero3, rotation |-> QuatIdentity, angle |-> 0]
    /\ ball = NoBall
    /\ hgt = NoHeight
    /\ age = 0

NextCamera == CameraUpdate

SpecCamera == InitCamera /\ [][NextCamera]_vars

---------------------------------------------------------------------------
(* One pass of cannonball_update, item by item: par_iter_mut hands each    *)
(* query item to the closure once, on some thread, in no fixed order; the  *)
(* closure borrows that item's Transform and Velocity and reads Time.      *)
(* The world holds up to MaxEnts projectiles, each flying, about to        *)
(* bounce, or nearly at rest.                                              *)

PassBalls ==
    {Entity({"Transform", "Mesh", "Velocity"}, b[1], QuatIdentity, b[2], 0) :
        b \in {<<MuzzleOffset, VScaleInt(MuzzleDirection, MuzzleSpeed)>>,
               <<(<<50000, 1200, -30000>>), (<<8000, -30000, -6000>>)>>,
               <<(<<-20000, 1000, 10000>>), (<<100, -2728, 0>>)>>}}

PassWorlds == UNION {[1 .. n -> PassBalls] : n \in 0 .. MaxEnts}

InitPass ==
    /\ world \in PassWorlds
    /\ cmdSpawn = << >>
    /\ cmdDespawn = {}
    /\ phase = "update"
    /\ ran = NoneRan
    /\ dt \in {Delta60, Delta20}
    /\ tick = 1
    /\ nextEntity = MaxEnts + 1
    /\ crashed = FALSE
    /\ before = world
    /\ born = {}
    /\ gone = {}
    /\ integrated = {}
    /\ dts = <<dt>>
    /\ pose = [translation |-> Zero3, rotation |-> QuatIdentity, angle |-> 0]
    /\ ball = NoBall
    /\ hgt = NoHeight
    /\ age = 0

\* the closure with the velocity of the item before it left in a shared place
ClosureOnShared(e) ==
    /\ phase = "update"
    /\ e \in Cannonballs(world) \ integrated
    /\ LET prev == IF (e - 1) \in DOMAIN world THEN world[e - 1].vel ELSE world[e].vel
           item == CannonballStep([world[e] EXCEPT !.vel = prev], dt)
       IN  /\ world' = [world EXCEPT ![e] = item]
           /\ cmdDespawn' = cmdDespawn \cup (IF DespawnDue(item) THEN {e} ELSE {})
    /\ integrated' = integrated \cup {e}
    /\ UNCHANGED <<cmdSpawn, phase, ran, dt, tick, nextEntity, crashed, before, born,
                   gone, pose, ball, age, hgt, dts>>

\* the closure run on the item of entity e
ClosureOn(e) ==
    /\ phase = "update"
    /\ e \in Cannonballs(world) \ integrated
    /\ LET item == CannonballStep(world[e], dt)
       IN  /\ world' = [world EXCEPT ![e] = item]
           /\ cmdDespawn' = cmdDespawn \cup (IF DespawnDue(item) THEN {e} ELSE {})
    /\ integrated' = integrated \cup {e}
    /\ UNCHANGED <<cmdSpawn, phase, ran, dt, tick, nextEntity, crashed, before, born,
                   gone, pose, ball, age, hgt, dts>>

NextPass == \E e \in 1 .. MaxEnts : ClosureOn(e)

SpecPass == InitPass /\ [][NextPass]_vars

---------------------------------------------------------------------------
(* Properties *)

Near(a, b, tol) == Abs(a - b) <= tol

VNear(a, b, tol) ==
    Near(a[1], b[1], tol) /\ Near(a[2], b[2], tol) /\ Near(a[3], b[3], tol)

C2_DespawnTermination ==
    (ball.state = "live") ~> (ball.state = "despawned" /\ age <= 10000)

\* a projectile that was despawned, by the integrator, after it bounced
C2_Witness ==
    /\ ball.state = "despawned"
    /\ dt = Delta60
    /\ age > 0
    /\ age <= 10000
    /\ DespawnDue(ball.e)

\* C3 as stated: at 1/60 s per tick the projectile is despawned between
\* 150 and 400 integrator ticks after its spawn.
C3_Original ==
    /\ ball.state = "despawned" => (150 <= age /\ age <= 400)
    /\ ball.state = "live" => age < 400

\* C3 as amended: at 1/60 s per tick the projectile is despawned between
\* 800 and 900 integrator ticks after its spawn (at tick 836).
C3_DespawnWindow ==
    /\ ball.state = "despawned" => (800 <= age /\ age <= 900)
    /\ ball.state = "live" => age < 900

\* the projectile despawned at its 836th integrator tick
C3_Witness ==
    /\ ball.state = "despawned"
    /\ dt = Delta60
    /\ age = 836

\* C4 (one shot per agent per tick): once ai_tank_update has run in a frame
\* its command buffer holds exactly one spawn per agent, none before; when
\* the frame's commands are applied exactly that many projectile entities
\* are created; so N agents have made N projectiles in each frame so far,
\* whatever the elapsed times (zero included).
C4_OneShotPerTick ==
    LET n == Cardinality(Tanks(world))
        frames == IF phase = "idle" THEN tick ELSE tick - 1
    IN  /\ n = NumTanks
        /\ (phase = "update" /\ ran["ai_tank_update"] = 0) => Len(cmdSpawn) = 0
        /\ (phase = "update" /\ ran["ai_tank_update"] > 0) => Len(cmdSpawn) = n
        /\ phase = "idle" => Len(cmdSpawn) = 0
        /\ (phase = "idle" /\ tick > 0) =>
              /\ Cardinality(born) = n
              /\ \A e \in born : e \in DOMAIN world /\ IsCannonball(world[e])
        /\ nextEntity = FirstTank + NumTanks + frames * n

\* two frames done, the second with zero elapsed time, each agent's shot of
\* the second frame in the world
C4_Witness ==
    /\ phase = "idle"
    /\ tick = 2
    /\ dt = 0
    /\ Cardinality(born) = NumTanks
    /\ Cardinality(Cannonballs(world)) = 2 * NumTanks

\* C5 as stated: in every frame ai_tank_update runs before cannonball_update
\* and cannonball_update before camera_update.
C5_Original ==
    phase = "update" =>
        /\ ran["cannonball_update"] > 0 => ran["ai_tank_update"] > 0
        /\ ran["camera_update"] > 0 => ran["cannonball_update"] > 0

\* C5 as amended: in every frame each of the three systems runs exactly
\* once, in no fixed order relative to the others, and the frame's spawns
\* and despawns are applied only when all three have run.
C5_OncePerFrame ==
    /\ \A s \in Systems : ran[s] <= 1
    /\ (phase = "idle" /\ tick > 0) => \A s \in Systems : ran[s] = 1
    /\ phase = "update" => born \cap Cannonballs(world) = born \cap Cannonballs(before)

\* a frame in which the camera tracker and then the integrator have run while
\* agent motion has not
C5_Witness ==
    /\ phase = "update"
    /\ tick = 2
    /\ ran["camera_update"] = 1
    /\ ran["cannonball_update"] = 1
    /\ ran["ai_tank_update"] = 0
    /\ integrated # {}

\* C6 (deferred despawn): a despawn asked for during the integrator pass
\* leaves the entity in the world until the frame's commands are applied
\* (the pass runs once and reaches every projectile the frame found); once
\* applied, the entity is in no later world, is not integrated again and is
\* not asked to be despawned again.
C6_DeferredDespawn ==
    /\ ran["cannonball_update"] <= 1
    /\ cmdDespawn \subseteq DOMAIN world
    /\ cmdDespawn \subseteq integrated
    /\ (phase = "update" /\ ran["cannonball_update"] = 1) =>
          /\ integrated = Cannonballs(before)
          /\ integrated \subseteq DOMAIN world
    /\ gone \cap DOMAIN world = {}
    /\ gone \cap cmdDespawn = {}
    /\ phase = "update" => gone \cap integrated = {}

\* the integrator pass of a frame after one whose despawns were applied
C6_Witness ==
    /\ gone # {}
    /\ phase = "update"
    /\ ran["cannonball_update"] = 1
    /\ integrated # {}
    /\ cmdDespawn # {}

PlayerMarked(w) == {e \in DOMAIN w : "PlayerTank" \in w[e].comps}
CameraMarked(w) == {e \in DOMAIN w : "Camera" \in w[e].comps}
PlayerNotCamera(w) == {e \in PlayerMarked(w) : "Camera" \notin w[e].comps}

C8_OnePlayerOneCamera ==
    /\ PlayerMarked(world) = {PlayerEntity}
    /\ CameraMarked(world) = {CameraEntity}
    /\ born \cap {PlayerEntity, CameraEntity} = {}
    /\ (gone \cup cmdDespawn) \cap {PlayerEntity, CameraEntity} = {}
    /\ ~crashed

\* the tracker has run in a frame after projectiles were spawned and despawned
C8_Witness ==
    /\ gone # {}
    /\ born # {}
    /\ phase = "update"
    /\ ran["camera_update"] = 1
    /\ PlayerMarked(world) = {PlayerEntity}

\* C9 (orientation purity): every agent's orientation is a rotation about
\* the vertical axis alone, by the heading computed in the frame from the
\* agent's position before the move; it maps world-up to world-up; and the
\* agent's height stays what setup made it.
C9_PureYaw ==
    \A e \in Tanks(world) :
        LET q == world[e].rotation
            up == MulVec3(q, UnitY)
        IN  /\ q[1] = 0
            /\ q[3] = 0
            /\ up[1] = 0
            /\ up[3] = 0
            /\ Near(up[2], Scale, 2)
            /\ world[e].translation[2] = SetupWorld[e].translation[2]
            /\ (phase = "update" /\ ran["ai_tank_update"] = 1) =>
                  LET a == TankHeading(before[e])
                  IN  /\ q = <<0, Sin(a \div 2), 0, Cos(a \div 2)>>
                      /\ world[e].translation[2] = before[e].translation[2]

\* an agent that has moved and turned to a heading off the axes
C9_Witness ==
    /\ tick >= 2
    /\ phase = "update"
    /\ ran["ai_tank_update"] = 1
    /\ \E e \in Tanks(world) :
          /\ world[e].rotation[2] \notin {0, Scale, -Scale}
          /\ world[e].rotation[4] \notin {0, Scale, -Scale}
          /\ world[e].translation[1] # 0
          /\ world[e].translation[3] # 0

\* the offset and the velocity of a shot at yaw a, from the sine and cosine
\* of a: (0.324 sin a, 1.235, 0.324 cos a) and (16 sin a, 14.34, 16 cos a)
YawedOffset(a) == <<MulS(3240, Sin(a)), 12350, MulS(3240, Cos(a))>>
YawedVelocity(a) == <<MulS(160000, Sin(a)), 143400, MulS(160000, Cos(a))>>

\* C10 (spawn pose): the projectile spawn_cannonball makes from a pose (p, q)
\* is at p + q(0, 1.235, 0.324), has orientation q and velocity
\* q(0, 0.717, 0.8) * 20; from the origin with the identity orientation it
\* is at (0, 1.235, 0.324) with velocity (0, 14.34, 16).
C10_SpawnPose ==
    (ball.state = "live" /\ age = 0) =>
        /\ ball.e.rotation = pose.rotation
        /\ VNear(ball.e.translation, VAdd(pose.translation, YawedOffset(pose.angle)), 5)
        /\ VNear(ball.e.vel, YawedVelocity(pose.angle), 50)
        /\ (pose.translation = Zero3 /\ pose.rotation = QuatIdentity) =>
              /\ ball.e.translation = <<0, 12350, 3240>>
              /\ ball.e.vel = <<0, 143400, 160000>>
        /\ ball.e.comps = {"Transform", "Mesh", "Velocity"}

\* a shot from a pose away from the origin, at a yaw off the axes
C10_Witness ==
    /\ ball.state = "live"
    /\ age = 0
    /\ pose.translation = <<-15000, 0, 72500>>
    /\ pose.angle = 6
    /\ ball.e.translation # VAdd(pose.translation, MuzzleOffset)

\* the camera offset behind a tank at yaw a, from the sine and cosine of a:
\* (-10 sin a, 5, -10 cos a)
YawedCameraOffset(a) == <<MulS(-100000, Sin(a)), 50000, MulS(-100000, Cos(a))>>

\* C11 (camera follow): after a run of camera_update that did not panic the
\* camera's pose is a function of the player's pose alone, whatever pose
\* the camera had: its position is the player's position plus the player's
\* orientation applied to (0, 5, -10), it looks from there at the player's
\* position plus (0, 1, 0) with global up, and no other entity has changed;
\* for a player at the origin with the identity orientation the camera is
\* at (0, 5, -10) looking at (0, 1, 0).
C11_CameraFollow ==
    (ran["camera_update"] = 1 /\ ~crashed) =>
        LET tank == CHOOSE e \in Players(before) : TRUE
            cam == CHOOSE e \in Cameras(before) : TRUE
            p == before[tank]
            c == world[cam]
            a == (CHOOSE q \in FirePoses : q.translation = p.translation
                                             /\ q.rotation = p.rotation).angle
        IN  /\ VNear(c.translation, VAdd(p.translation, YawedCameraOffset(a)), 30)
            /\ c.rotation = LookingAt(c.translation,
                                      VAdd(p.translation, <<0, Scale, 0>>),
                                      <<0, Scale, 0>>)
            /\ c.comps = before[cam].comps
            /\ \A e \in DOMAIN world : e # cam => world[e] = before[e]
            /\ (p.translation = Zero3 /\ p.rotation = QuatIdentity) =>
                  /\ c.translation = <<0, 50000, -100000>>
                  /\ c.rotation = <<0, -40000, 100000, 0, Scale, 0>>

\* the camera has been placed behind a turned player away from the origin,
\* from a pose of its own that was elsewhere
C11_Witness ==
    /\ ran["camera_update"] = 1
    /\ ~crashed
    /\ \E tank \in Players(before), cam \in Cameras(before) :
          /\ before[tank].translation = <<-15000, 0, 72500>>
          /\ before[tank].rotation # QuatIdentity
          /\ before[cam].translation = Zero3
          /\ world[cam].translation # before[cam].translation
          /\ world[cam].translation[3] > 72500


\* C12 (agent lifecycle): setup makes agents with pairwise distinct ids that
\* form the range 1 .. n, and in every state reached from it the agents and
\* their ids are those of setup: none is despawned or asked to be, none is
\* spawned, no id changes.
C12_AgentLifecycle ==
    /\ Cardinality(Tanks(SetupWorld)) = NumTanks
    /\ {SetupWorld[e].id : e \in Tanks(SetupWorld)} = 1 .. NumTanks
    /\ Tanks(world) = Tanks(SetupWorld)
    /\ \A e \in Tanks(world) : /\ world[e].id = SetupWorld[e].id
                               /\ world[e].comps = SetupWorld[e].comps
    /\ (gone \cup cmdDespawn) \cap Tanks(SetupWorld) = {}
    /\ born \cap Tanks(world) = {}

\* projectiles have been despawned and the agents, all there, have moved
C12_Witness ==
    /\ gone # {}
    /\ born # {}
    /\ phase = "idle"
    /\ Cardinality(Tanks(world)) = NumTanks
    /\ \A e \in Tanks(world) : world[e].translation # SetupWorld[e].translation


\* an agent alone: its state after the first n of the elapsed times ds, from
\* the state e, with no world around it
RECURSIVE Replayed(_, _, _)
Replayed(e, ds, n) ==
    IF n = 0 THEN e ELSE TankStep(Replayed(e, ds, n - 1), ds[n])

\* the frames whose agent motion has been done
MotionsDone == IF phase = "update" /\ ran["ai_tank_update"] = 0
               THEN Len(dts) - 1 ELSE Len(dts)

\* C13 (determinism): an agent's positions and headings, frame by frame, are
\* those of the agent replayed alone from its setup pose with its id over
\* the same elapsed times, whatever the other agents and the projectiles do
\* and in whatever order the frame's systems run; so two runs with the same
\* noise function, id, setup pose and elapsed times agree.
C13_Determinism ==
    /\ Len(dts) = tick
    /\ \A e \in Tanks(world) :
          /\ world[e] = Replayed(SetupWorld[e], dts, MotionsDone)
          /\ MotionsDone > 0 =>
                world[e].rotation =
                    TankRotation(TankHeading(Replayed(SetupWorld[e], dts, MotionsDone - 1)))

\* three frames with different elapsed times, the integrator and agent
\* motion run in the third, the agents apart from each other
C13_Witness ==
    /\ phase = "update"
    /\ Len(dts) = 3
    /\ dts[1] # dts[2]
    /\ dts[2] # dts[3]
    /\ dts[3] > 0
    /\ ran["cannonball_update"] = 1
    /\ ran["ai_tank_update"] = 1
    /\ ran["camera_update"] = 0
    /\ integrated # {}
    /\ \E a, b \in Tanks(world) : world[a].translation # world[b].translation


\* C14 (projectile independence): at every point of an integrator pass,
\* whatever items have been processed and in whatever order, each processed
\* projectile is the closure's result on its own state at the start of the
\* pass, each unprocessed one is as it was, and the despawn requests are
\* those of the processed ones; so the state when the pass is complete is
\* the same for every order.
C14_Independence ==
    /\ \A e \in DOMAIN world :
          world[e] = IF e \in integrated THEN CannonballStep(before[e], dt)
                     ELSE before[e]
    /\ cmdDespawn = {e \in integrated : DespawnDue(CannonballStep(before[e], dt))}
    /\ integrated \subseteq Cannonballs(before)

\* a complete pass over three different projectiles, one bounced and one
\* asked to be despawned
C14_Witness ==
    /\ Cardinality(DOMAIN world) >= 3
    /\ integrated = DOMAIN world
    /\ \A a, b \in DOMAIN world : a # b => before[a] # before[b]
    /\ cmdDespawn # {}
    /\ cmdDespawn # integrated
    /\ \E e \in DOMAIN world : Bounces(before[e], dt) /\ e \notin cmdDespawn


\* C15 (integrator velocity update): in every integrator tick the position
\* is advanced by the velocity the tick found times the elapsed time; if
\* the advanced height is below 0.1 the height becomes 0.1 and the velocity
\* (0.8 vx, -0.8 vy - 9.82 dt, 0.8 vz), otherwise the velocity becomes
\* (vx, vy - 9.82 dt, vz).
C15_VelocityUpdate ==
    [][(ball.state = "live" /\ age' = age + 1) =>
          LET v == ball.e.vel
              p == ball.e.translation
              d == dt'
              w == ball'.e.vel
              q == ball'.e.translation
              adv == p[2] + MulTime(v[2], d)
              g == MulTime(98200, d)
          IN  /\ q[1] = p[1] + MulTime(v[1], d)
              /\ q[3] = p[3] + MulTime(v[3], d)
              /\ ball'.hit = (adv < 1000)
              /\ IF adv < 1000
                 THEN /\ q[2] = 1000
                      /\ Near(w[1], RDiv(8 * v[1], 10), 1)
                      /\ Near(w[2], -RDiv(8 * v[2], 10) - g, 1)
                      /\ Near(w[3], RDiv(8 * v[3], 10), 1)
                 ELSE /\ q[2] = adv
                      /\ w = <<v[1], v[2] - g, v[3]>>]_vars

\* a projectile just bounced in a frame of positive length, after some
\* flight, now rising and still moving sideways
C15_Witness ==
    /\ ball.state = "live"
    /\ ball.hit
    /\ age >= 2
    /\ dt > 0
    /\ ball.e.vel[2] > 0
    /\ ball.e.vel[3] # 0
    /\ ball.e.translation[2] = FloorHeight


\* the squared speed is strictly below 0.1: no component reaches the square
\* root of 0.1 (0.3162..) and the squares add up to less than 0.1
SquaredSpeedUnderTenth(v) ==
    /\ Abs(v[1]) <= 3162
    /\ Abs(v[2]) <= 3162
    /\ Abs(v[3]) <= 3162
    /\ v[1] * v[1] + v[2] * v[2] + v[3] * v[3] < 10000000

\* C16 (despawn condition): after every integrator tick the projectile has
\* been asked to be despawned if and only if the squared magnitude of its
\* velocity after the tick's move, bounce and gravity is strictly below
\* 0.1; at 0.1 or more it lives on.
C16_DespawnCondition ==
    (ball.state # "none" /\ age > 0) =>
        (ball.state = "despawned" <=> SquaredSpeedUnderTenth(ball.e.vel))

\* a projectile despawned at a speed above 0.1 whose square is below 0.1
C16_Witness ==
    /\ ball.state = "despawned"
    /\ age > 1
    /\ ball.e.vel[1] * ball.e.vel[1] + ball.e.vel[2] * ball.e.vel[2]
         + ball.e.vel[3] * ball.e.vel[3] > 1000000
    /\ SquaredSpeedUnderTenth(ball.e.vel)


\* C17 (frame of the player pose): the player entity, the sun and the floor
\* are in every state as setup made them; within a frame ai_tank_update
\* changes only the translation and rotation of agents, cannonball_update
\* only the translation and velocity of entities with a Velocity, and the
\* camera changes only when camera_update runs.
C17_PlayerFrame ==
    /\ world[PlayerEntity] = SetupWorld[PlayerEntity]
    /\ world[SunEntity] = SetupWorld[SunEntity]
    /\ world[FloorEntity] = SetupWorld[FloorEntity]
    /\ phase = "update" =>
          /\ DOMAIN world = DOMAIN before
          /\ ran["camera_update"] = 0 => world[CameraEntity] = before[CameraEntity]
          /\ \A e \in DOMAIN world :
                /\ (~IsTank(before[e]) /\ ~IsCannonball(before[e]) /\ e # CameraEntity)
                      => world[e] = before[e]
                /\ IsTank(before[e]) =>
                      /\ world[e].vel = before[e].vel
                      /\ world[e].comps = before[e].comps
                      /\ world[e].id = before[e].id
                      /\ ran["ai_tank_update"] = 0 => world[e] = before[e]
                /\ IsCannonball(before[e]) =>
                      /\ world[e].rotation = before[e].rotation
                      /\ world[e].comps = before[e].comps
                      /\ ran["cannonball_update"] = 0 => world[e] = before[e]

\* agent motion and the integrator have run in a frame of positive length
\* with projectiles in flight, agents moved, and the camera not yet placed
C17_Witness ==
    /\ phase = "update"
    /\ tick >= 2
    /\ dt > 0
    /\ ran["ai_tank_update"] = 1
    /\ ran["cannonball_update"] = 1
    /\ ran["camera_update"] = 0
    /\ integrated # {}
    /\ \E e \in Tanks(world) : world[e].translation # before[e].translation
    /\ \E e \in integrated : world[e].translation # before[e].translation
    /\ world[PlayerEntity].translation = Zero3


\* C18 (heading from the pre-update position): when ai_tank_update has run
\* in a frame, each agent's heading is (0.5 + n) * 4 pi for the noise n at
\* (x/10, id, z/10) of its position before the frame's move; its position is
\* the earlier one plus (sin, 0, cos) of that heading times 5 times the
\* elapsed time; its orientation is the yaw by that heading, whatever it was
\* before; and its shot of the frame is spawned from the pose after the
\* move.
C18_HeadingBeforeMove ==
    (phase = "update" /\ ran["ai_tank_update"] = 1) =>
        /\ Len(cmdSpawn) = Cardinality(Tanks(world))
        /\ \A e \in Tanks(world) :
              LET b == before[e]
                  n == PerlinGet(RDiv(b.translation[1], 10), b.id,
                                 RDiv(b.translation[3], 10))
                  a == ((8 + n) * 32) \div 16
                  shot == cmdSpawn[e - FirstTank + 1]
              IN  /\ world[e].translation =
                        <<b.translation[1] + 5 * MulTime(Sin(a), dt),
                          b.translation[2],
                          b.translation[3] + 5 * MulTime(Cos(a), dt)>>
                  /\ world[e].rotation = <<0, Sin(a \div 2), 0, Cos(a \div 2)>>
                  /\ shot.rotation = world[e].rotation
                  /\ VNear(shot.translation,
                           VAdd(world[e].translation, YawedOffset(a)), 5)
                  /\ VNear(shot.vel, YawedVelocity(a), 50)

\* an agent away from its setup position has moved far enough in the frame
\* for the noise at its new position to give another heading
C18_Witness ==
    /\ phase = "update"
    /\ ran["ai_tank_update"] = 1
    /\ dt > 0
    /\ \E e \in Tanks(world) :
          /\ before[e].translation # Zero3
          /\ before[e].rotation # world[e].rotation
          /\ TankHeading(before[e]) # TankHeading(world[e])
          /\ TankHeading(before[e]) % FullTurn # TankHeading(world[e]) % FullTurn


\* the agent whose shot the entity e of the last applied frame is
ShooterOf(e) == FirstTank + (e - (nextEntity - NumTanks))

\* C19 (deferred spawn): the shots of a frame are commands until the frame's
\* systems have all run: during the frame the world holds the entities the
\* frame found and the integrator runs on those only, in whatever order the
\* systems run; a shot applied at the end of a frame is in the world in its
\* spawn state, is in that state when the next frame begins, and that
\* frame's integrator pass moves it on from there.
C19_DeferredSpawn ==
    /\ phase = "update" =>
          /\ DOMAIN world = DOMAIN before
          /\ Cannonballs(world) = Cannonballs(before)
          /\ integrated \subseteq Cannonballs(before)
          /\ Len(cmdSpawn) = IF ran["ai_tank_update"] = 1 THEN NumTanks ELSE 0
          /\ \A i \in 1 .. Len(cmdSpawn) : (nextEntity + i - 1) \notin DOMAIN world
    /\ phase = "idle" =>
          /\ cmdSpawn = << >>
          /\ \A e \in born :
                world[e] = CannonballBundle(world[ShooterOf(e)].translation,
                                            world[ShooterOf(e)].rotation)
    /\ (phase = "update" /\ tick > 1) =>
          /\ Cardinality(born) = NumTanks
          /\ \A e \in born :
                /\ before[e] = CannonballBundle(before[ShooterOf(e)].translation,
                                                before[ShooterOf(e)].rotation)
                /\ world[e] = IF ran["cannonball_update"] = 1
                              THEN CannonballStep(before[e], dt) ELSE before[e]
                /\ ran["cannonball_update"] = 1 => e \in integrated

\* in a frame of positive length agent motion ran first and queued its
\* shots, then the integrator ran and moved the shots of the frame before
C19_Witness ==
    /\ phase = "update"
    /\ tick = 2
    /\ dt > 0
    /\ ran["ai_tank_update"] = 1
    /\ ran["cannonball_update"] = 1
    /\ Len(cmdSpawn) = NumTanks
    /\ born # {}
    /\ born = integrated
    /\ \A e \in born : world[e].translation # before[e].translation


\* C20 (despawn for every step size): at each steady elapsed time of 1/240,
\* 1/60, 1/30, 1/15 and 1/10 s a projectile fired with the muzzle velocity
\* is eventually despawned.
C20_DespawnAtEveryStep == (ball.state = "live") ~> (ball.state = "despawned")


===========================================================================
